---- MODULE Spec2Model ----
(***************************************************************************)
(* A model of rdflib/plugins/sparql/parserutils.py: value resolution       *)
(* (value), attributed nodes (CompValue) and evaluable nodes (Expr).       *)
(*                                                                         *)
(* Python's nested calls are modelled by an explicit call stack per        *)
(* thread: one frame per active call of Expr.eval, of an evaluation        *)
(* function, or of value().  A finished callee leaves its outcome (a       *)
(* returned value or a raised exception) in the thread's ret register.     *)
(***************************************************************************)
EXTENDS Integers, Sequences, FiniteSets, TLC

VARIABLES
    nodes,   \* the heap: node id -> CompValue / Expr object
    stack,   \* thread -> sequence of frames (innermost call last)
    ret,     \* thread -> outcome of the callee that finished last
    call,    \* thread -> the top-level call the thread issued last
    log      \* thread -> history of the calls finished during that call

vars == <<nodes, stack, ret, call, log>>

(***************************************************************************)
(* Bounds of the model.                                                    *)
(***************************************************************************)
MaxLit == 1      \* contexts bind variables to the literals 0..MaxLit
MaxLen == 2      \* lists given to value() have at most MaxLen elements

(***************************************************************************)
(* Python values.  Every value is a record [t, v]: t is the Python class.  *)
(***************************************************************************)
NoneVal == [t |-> "None", v |-> 0]
Lit(n) == [t |-> "Literal", v |-> n]
Var(n) == [t |-> "Variable", v |-> n]
BNode(n) == [t |-> "BNode", v |-> n]
Obj(n) == [t |-> "object", v |-> n]            \* reference to nodes[n]
List(s) == [t |-> "list", v |-> s]
PList(s) == [t |-> "plist", v |-> s]
ParseResults(s) == [t |-> "ParseResults", v |-> s]

\* exception objects; v tells instances of one class apart
StoredError == [t |-> "SPARQLError", v |-> 1]     \* an error kept in a context
RaisedError == [t |-> "SPARQLError", v |-> 2]     \* raised by an evaluation function
SPARQLTypeError == [t |-> "SPARQLTypeError", v |-> 0]
NotBoundError == [t |-> "NotBoundError", v |-> 0]
PyException == [t |-> "Exception", v |-> 0]       \* value(): "What do I do with this CompValue?"
CrashException == [t |-> "Exception", v |-> 1]    \* raised by an evaluation function
PyTypeError == [t |-> "TypeError", v |-> 0]       \* calling None
KeyError == [t |-> "KeyError", v |-> 0]
AttributeError == [t |-> "AttributeError", v |-> 0]

\* isinstance(x, SPARQLError): NotBoundError and SPARQLTypeError are subclasses
IsSPARQLError(x) == x.t \in {"SPARQLError", "SPARQLTypeError", "NotBoundError"}

\* outcomes of a call
NoRet == [k |-> "none", v |-> NoneVal]
Return(x) == [k |-> "val", v |-> x]
Raise(x) == [k |-> "raise", v |-> x]

(***************************************************************************)
(* Binding contexts: the caller's mapping from variables and blank nodes   *)
(* to bound values, None (unbound) or a stored error value.                *)
(***************************************************************************)
Keys == {Var(1), BNode(1)}
Bindable == {NoneVal, StoredError} \cup {Lit(n) : n \in 0..MaxLit}
Ctxs == [Keys -> Bindable]

\* ctx.get(key)
CtxGet(ctx, key) == IF key \in DOMAIN ctx THEN ctx[key] ELSE NoneVal

\* None where a context is expected: value(None, ...) and eval(None), which
\* _value produces when self.ctx is reset between its test and its call
NoneCtx == [k \in Keys |-> [t |-> "NoneType", v |-> 0]]

NoCtx == <<>>                 \* self.ctx is None
\* self.ctx = ctx
Attached(ctx) == IF ctx = NoneCtx THEN NoCtx ELSE <<ctx>>

(***************************************************************************)
(* The heap.  A node is what CompValue.__init__ / Expr.__init__ build: the *)
(* class, the tag (name), the ordered mapping (keys, vals), the bound      *)
(* evaluation function ("None" when never set) and the transient context.  *)
(* A node that was never evaluated has no ctx attribute; reading self.ctx  *)
(* then falls to __getattr__, which yields None, so NoCtx models both.     *)
(***************************************************************************)
Node(cls, name, evalfn, keys, vals) ==
    [cls |-> cls, name |-> name, evalfn |-> evalfn,
     keys |-> keys, vals |-> vals, ctx |-> NoCtx]

InitNodes ==
    <<Node("Expr", "Sum", "Sum", <<"x", "y">>, <<Var(1), BNode(1)>>),
      Node("Expr", "Outer", "Sum", <<"x", "y">>, <<Obj(1), Lit(4)>>),
      Node("CompValue", "Base", "None", <<"iri">>, <<Lit(3)>>),
      Node("Expr", "Unset", "None", <<"x">>, <<Var(1)>>),
      Node("Expr", "Bad", "Sum", <<"x", "y">>, <<Obj(3), Lit(0)>>),
      Node("Expr", "Fail", "Fail", <<>>, <<>>),
      Node("Expr", "Crash", "Crash", <<>>, <<>>),
      Node("Expr", "Items", "First", <<"x">>, <<PList(<<Var(1), Obj(1)>>)>>)>>

NodeIds == DOMAIN InitNodes
ExprIds == {n \in NodeIds : InitNodes[n].cls = "Expr"}

\* a in self (OrderedDict.__contains__)
HasKey(n, a) == \E i \in DOMAIN nodes[n].keys : nodes[n].keys[i] = a
\* OrderedDict.__getitem__(self, a), for a key that is present
RawItem(n, a) ==
    nodes[n].vals[CHOOSE i \in DOMAIN nodes[n].keys : nodes[n].keys[i] = a]

(***************************************************************************)
(* Evaluation functions are supplied by the grammar; these are the ones    *)
(* the model binds to nodes.  Each is a straight-line program over the     *)
(* node's attributes:                                                      *)
(*   Sum    return self.x + self.y (a SPARQLTypeError unless both are      *)
(*          literals)                                                      *)
(*   First  return self.x                                                  *)
(*   Fail   raise SPARQLError                                              *)
(*   Crash  raise Exception                                                *)
(*   Probe  return the result of one read of self: self[a], self.a,        *)
(*          self.get(a) or self.clone()                                    *)
(*   Reenter  when not called from itself, call self.eval(c) for some      *)
(*          context c; then return self.x                                  *)
(***************************************************************************)
Op(o, a) == [o |-> o, a |-> a]
Program(fn) ==
    CASE fn = "Sum" -> <<Op("getattr", "x"), Op("getattr", "y"), Op("add", "")>>
      [] fn = "First" -> <<Op("getattr", "x"), Op("first", "")>>
      [] fn = "Fail" -> <<Op("fail", "")>>
      [] fn = "Crash" -> <<Op("crash", "")>>
      [] fn = "Probe" -> <<Op("access", ""), Op("first", "")>>
      [] fn = "Reenter" -> <<Op("reenter", ""), Op("getattr", "x"), Op("second", "")>>

\* the outcome of the last operation of an evaluation function
FnResult(o, regs) ==
    CASE o = "add" ->
           IF regs[1].t = "Literal" /\ regs[2].t = "Literal"
           THEN Return(Lit(regs[1].v + regs[2].v))
           ELSE Raise(SPARQLTypeError)
      [] o = "first" -> Return(regs[1])
      [] o = "second" -> Return(regs[2])
      [] o = "fail" -> Raise(RaisedError)
      [] o = "crash" -> Raise(CrashException)

(***************************************************************************)
(* Frames.                                                                 *)
(***************************************************************************)
EvalFrame(n, ctx) == [k |-> "eval", node |-> n, ctx |-> ctx, pc |-> "attach"]
FnFrame(n, ctx) ==
    [k |-> "fn", node |-> n, ctx |-> ctx, pc |-> 1, regs |-> <<>>, wait |-> FALSE]
ValueFrame(ctx, val, variables, errors) ==
    [k |-> "value", ctx |-> ctx, val |-> val, variables |-> variables,
     errors |-> errors, pc |-> "start", acc |-> <<>>]

Top(t) == stack[t][Len(stack[t])]
Pop(s) == SubSeq(s, 1, Len(s) - 1)
SetTop(s, f) == [s EXCEPT ![Len(s)] = f]

NoCall == [op |-> "none", ctx |-> <<>>, val |-> NoneVal,
           variables |-> FALSE, errors |-> FALSE]

Running(t) == stack[t] # <<>>
\* the thread is between two top-level calls
Idle(t) == stack[t] = <<>> /\ call[t].op = "none"
\* the thread's top-level call has returned or raised; ret[t] is its outcome
Done(t) == stack[t] = <<>> /\ call[t].op # "none"

LogEntry(op, ctx, val, variables, errors, out) ==
    [op |-> op, ctx |-> ctx, val |-> val, variables |-> variables,
     errors |-> errors, out |-> out]

(***************************************************************************)
(* value(ctx, val, variables, errors)                                      *)
(***************************************************************************)
IsExpr(val) == val.t = "object" /\ nodes[val.v].cls = "Expr"
IsCompValue(val) == val.t = "object"           \* Expr is a subclass of CompValue
IsList(val) == val.t \in {"list", "plist"}     \* plist is a subclass of list

\* value_branch without the "elif isinstance(val, CompValue)" test
Mut_value_branch_no_compvalue(val) ==
    CASE IsExpr(val) -> "Expr"
      [] IsList(val) -> "list"
      [] val.t \in {"BNode", "Variable"} -> "variable"
      [] val.t = "ParseResults" /\ Len(val.v) = 1 -> "single"
      [] OTHER -> "other"

\* value_branch collapsing every non-empty ParseResults to its first element
Mut_value_branch_any_parseresults(val) ==
    CASE IsExpr(val) -> "Expr"
      [] ~IsExpr(val) /\ IsCompValue(val) -> "CompValue"
      [] IsList(val) -> "list"
      [] val.t \in {"BNode", "Variable"} -> "variable"
      [] val.t = "ParseResults" /\ Len(val.v) >= 1 -> "single"
      [] OTHER -> "other"

\* which branch of the if/elif chain of value() takes val
value_branch(val) ==
    CASE IsExpr(val) -> "Expr"
      [] ~IsExpr(val) /\ IsCompValue(val) -> "CompValue"
      [] IsList(val) -> "list"
      [] val.t \in {"BNode", "Variable"} -> "variable"
      [] val.t = "ParseResults" /\ Len(val.v) = 1 -> "single"
      [] OTHER -> "other"

\* value_variable with "if r:" in place of "if r is not None:"
Mut_value_variable_truthy(ctx, val, variables, errors) ==
    LET r == CtxGet(ctx, val) IN
    IF IsSPARQLError(r) /\ ~errors THEN Raise(r)
    ELSE IF r # NoneVal /\ r # Lit(0) THEN Return(r)
    ELSE IF variables THEN Return(val)
    ELSE Raise(NotBoundError)

\* value_variable with the unbound test before the stored-error test
Mut_value_variable_order(ctx, val, variables, errors) ==
    LET r == CtxGet(ctx, val) IN
    IF r # NoneVal /\ ~IsSPARQLError(r) THEN Return(r)
    ELSE IF variables THEN Return(val)
    ELSE Raise(NotBoundError)

\* value_variable without the errors test: a stored error is returned
Mut_value_variable_keep(ctx, val, variables, errors) ==
    LET r == CtxGet(ctx, val) IN
    IF r # NoneVal THEN Return(r)
    ELSE IF variables THEN Return(val)
    ELSE Raise(NotBoundError)

\* the branch for a BNode or Variable
value_variable(ctx, val, variables, errors) ==
    LET r == CtxGet(ctx, val) IN
    IF ctx = NoneCtx THEN Raise(AttributeError)   \* None has no get
    ELSE
    IF IsSPARQLError(r) /\ ~errors THEN Raise(r)
    ELSE IF r # NoneVal THEN Return(r)
    ELSE IF variables THEN Return(val)
    ELSE Raise(NotBoundError)

\* value_expr_call as val.eval(): the default, empty context
Mut_value_expr_call_default(f) == EvalFrame(f.val.v, [k \in Keys |-> NoneVal])

\* val.eval(ctx)
value_expr_call(f) == EvalFrame(f.val.v, f.ctx)

\* value_list_call as value(ctx, x): the flags are not handed on
Mut_value_list_call_noflags(f, i) == ValueFrame(f.ctx, f.val.v[i], FALSE, FALSE)

\* value(ctx, x, variables, errors) for the i-th x of the list val
value_list_call(f, i) == ValueFrame(f.ctx, f.val.v[i], f.variables, f.errors)
\* value(ctx, val[0], variables, errors)
value_single_call(f) == ValueFrame(f.ctx, f.val.v[1], f.variables, f.errors)

ValueDone(f, out) ==
    LogEntry("value", f.ctx, f.val, f.variables, f.errors, out)

\* first step of a call of value(): the isinstance dispatch
value_start(t) ==
    /\ Running(t) /\ Top(t).k = "value" /\ Top(t).pc = "start"
    /\ LET f == Top(t)
           b == value_branch(f.val)
           out == CASE b = "CompValue" -> Raise(PyException)
                    [] b = "variable" ->
                         value_variable(f.ctx, f.val, f.variables, f.errors)
                    [] OTHER -> Return(f.val)
       IN  CASE b = "Expr" ->
                  /\ stack' = [stack EXCEPT ![t] =
                         Append(SetTop(@, [f EXCEPT !.pc = "ret"]), value_expr_call(f))]
                  /\ ret' = [ret EXCEPT ![t] = NoRet]
                  /\ log' = log
             [] b = "single" ->
                  /\ stack' = [stack EXCEPT ![t] =
                         Append(SetTop(@, [f EXCEPT !.pc = "ret"]), value_single_call(f))]
                  /\ ret' = [ret EXCEPT ![t] = NoRet]
                  /\ log' = log
             [] b = "list" ->
                  /\ stack' = [stack EXCEPT ![t] = SetTop(@, [f EXCEPT !.pc = "list"])]
                  /\ ret' = [ret EXCEPT ![t] = NoRet]
                  /\ log' = log
             [] OTHER ->
                  /\ stack' = [stack EXCEPT ![t] = Pop(@)]
                  /\ ret' = [ret EXCEPT ![t] = out]
                  /\ log' = [log EXCEPT ![t] = @ \cup {ValueDone(f, out)} \cup
                         IF b = "variable"
                         THEN {LogEntry("lookup", f.ctx, f.val, FALSE, FALSE,
                                        Return(CtxGet(f.ctx, f.val)))}
                         ELSE {}]
    /\ UNCHANGED <<nodes, call>>

\* the list comprehension: resolve the next element, or return the new list
value_list(t) ==
    /\ Running(t) /\ Top(t).k = "value" /\ Top(t).pc = "list"
    /\ LET f == Top(t) IN
       IF Len(f.acc) = Len(f.val.v)
       THEN /\ stack' = [stack EXCEPT ![t] = Pop(@)]
            /\ ret' = [ret EXCEPT ![t] = Return(List(f.acc))]
            /\ log' = [log EXCEPT ![t] = @ \cup {ValueDone(f, Return(List(f.acc)))}]
       ELSE /\ stack' = [stack EXCEPT ![t] =
                   Append(SetTop(@, [f EXCEPT !.pc = "elem"]),
                          value_list_call(f, Len(f.acc) + 1))]
            /\ ret' = [ret EXCEPT ![t] = NoRet]
            /\ log' = log
    /\ UNCHANGED <<nodes, call>>

\* an element's value() came back: keep its result, or let its exception pass
value_elem(t) ==
    /\ Running(t) /\ Top(t).k = "value" /\ Top(t).pc = "elem"
    /\ ret[t].k # "none"
    /\ LET f == Top(t) IN
       IF ret[t].k = "raise"
       THEN /\ stack' = [stack EXCEPT ![t] = Pop(@)]
            /\ ret' = ret
            /\ log' = [log EXCEPT ![t] = @ \cup {ValueDone(f, ret[t])}]
       ELSE /\ stack' = [stack EXCEPT ![t] =
                   SetTop(@, [f EXCEPT !.pc = "list", !.acc = Append(@, ret[t].v)])]
            /\ ret' = [ret EXCEPT ![t] = NoRet]
            /\ log' = log
    /\ UNCHANGED <<nodes, call>>

\* "return val.eval(ctx)" / "return value(ctx, val[0], ...)": pass the outcome on
value_return(t) ==
    /\ Running(t) /\ Top(t).k = "value" /\ Top(t).pc = "ret"
    /\ ret[t].k # "none"
    /\ stack' = [stack EXCEPT ![t] = Pop(@)]
    /\ log' = [log EXCEPT ![t] = @ \cup {ValueDone(Top(t), ret[t])}]
    /\ UNCHANGED <<nodes, ret, call>>

(***************************************************************************)
(* CompValue: reads of stored attributes.                                  *)
(***************************************************************************)
\* CompValue_value with "if self.ctx:": a context without bindings counts as
\* no context
Mut_CompValue_value_truthy(n, val, variables, errors) ==
    IF nodes[n].ctx # NoCtx /\ \E k \in Keys : nodes[n].ctx[1][k] # NoneVal
    THEN <<ValueFrame(nodes[n].ctx[1], val, variables, FALSE)>>
    ELSE <<>>

\* CompValue._value(val, variables, errors): the call of value() it makes while
\* a context is attached (errors is not handed on), or <<>> when it returns val
CompValue_value(n, val, variables, errors) ==
    IF nodes[n].ctx # NoCtx
    THEN <<ValueFrame(nodes[n].ctx[1], val, variables, FALSE)>>
    ELSE <<>>

\* CompValue.__getitem__(a), for a key that is present: self._value(raw)
CompValue_getitem(n, a) == CompValue_value(n, RawItem(n, a), FALSE, FALSE)

Str(x) == [t |-> "str", v |-> x]
\* what normal attribute lookup finds on a node before __getattr__ is asked:
\* the instance attribute name (the tag) and the methods of the class
ObjectAttrs == {"name"}
Methods == {"clone", "get"}
\* the names __getattr__ refuses
Reserved == {"_OrderedDict__root", "_OrderedDict__end"}

\* CompValue.get(a, variables, errors): self._value(OrderedDict.get(self, a, a), ...)
CompValue_get_raw(n, a) == IF HasKey(n, a) THEN RawItem(n, a) ELSE Str(a)
CompValue_get(n, a, variables, errors) ==
    CompValue_value(n, CompValue_get_raw(n, a), variables, errors)

\* the forms of node.get(a, ...): get(a), get(a, variables=True),
\* get(a, errors=True), get(a, variables=True, errors=True)
GetOps == {"get", "get_variables", "get_errors", "get_variables_errors"}
GetVariables(op) == op \in {"get_variables", "get_variables_errors"}
GetErrors(op) == op \in {"get_errors", "get_variables_errors"}

\* CompValue_access without the "except KeyError" of __getattr__
Mut_CompValue_access_keyerror(n, op, a) ==
    IF op \in {"getitem", "getattr"}
    THEN IF op = "getattr" /\ a \in ObjectAttrs THEN <<"out", Return(Str(nodes[n].name))>>
         ELSE IF op = "getattr" /\ a \in Methods
              THEN <<"out", Return([t |-> "method", v |-> a])>>
         ELSE IF op = "getattr" /\ a \in Reserved THEN <<"out", Raise(AttributeError)>>
         ELSE IF ~HasKey(n, a) THEN <<"out", Raise(KeyError)>>
         ELSE IF CompValue_getitem(n, a) = <<>> THEN <<"out", Return(RawItem(n, a))>>
         ELSE <<"value", CompValue_getitem(n, a)[1]>>
    ELSE IF CompValue_get(n, a, GetVariables(op), GetErrors(op)) = <<>>
         THEN <<"out", Return(CompValue_get_raw(n, a))>>
         ELSE <<"value", CompValue_get(n, a, GetVariables(op), GetErrors(op))[1]>>

\* one read of node n, as <<"out", outcome>> when it ends without a call of
\* value(), and as <<"value", frame>> when its result is that of value()
\*   getitem  n[a]       getattr  n.a       GetOps  n.get(a, ...)
CompValue_access(n, op, a) ==
    CASE op = "getitem" ->
           IF ~HasKey(n, a) THEN <<"out", Raise(KeyError)>>
           ELSE IF CompValue_getitem(n, a) = <<>> THEN <<"out", Return(RawItem(n, a))>>
           ELSE <<"value", CompValue_getitem(n, a)[1]>>
      [] op \in GetOps ->
           IF CompValue_get(n, a, GetVariables(op), GetErrors(op)) = <<>>
           THEN <<"out", Return(CompValue_get_raw(n, a))>>
           ELSE <<"value", CompValue_get(n, a, GetVariables(op), GetErrors(op))[1]>>
      [] op = "getattr" ->
           IF a \in ObjectAttrs THEN <<"out", Return(Str(nodes[n].name))>>
           ELSE IF a \in Methods THEN <<"out", Return([t |-> "method", v |-> a])>>
           ELSE IF a \in Reserved THEN <<"out", Raise(AttributeError)>>
           ELSE IF ~HasKey(n, a) THEN <<"out", Return(NoneVal)>>
           ELSE IF CompValue_getitem(n, a) = <<>> THEN <<"out", Return(RawItem(n, a))>>
           ELSE <<"value", CompValue_getitem(n, a)[1]>>

\* CompValue.__init__(name, **values): a value passed under the keyword name
\* collides with the positional argument
CompValue_init(name, keys, vals) ==
    IF \E i \in DOMAIN keys : keys[i] = "name" THEN Raise(PyTypeError)
    ELSE Return([t |-> "node", v |-> Node("CompValue", name, "None", keys, vals)])

\* a read (or clone) of node n in progress; from is <<>> for a caller outside
\* any evaluation and <<ctx>> for the evaluation function that eval(ctx) runs.
\* _value reads self.ctx twice: test is what "if self.ctx is not None" found,
\* pend the call of value() it then decided on, at what "value(self.ctx, ...)"
\* found
AccessFrame(n, op, a, from) ==
    [k |-> "access", node |-> n, op |-> op, a |-> a, from |-> from,
     pc |-> "start", acc |-> <<>>, test |-> NoCtx, pend |-> <<>>, at |-> NoCtx]

\* the number of evals in flight on thread t
Depth(t) == Cardinality({i \in DOMAIN stack[t] : stack[t][i].k = "eval"})

\* history: the read f made by an evaluation function at depth d ended with out
AccessDone(f, test, at, d, out) ==
    IF f.from = <<>> THEN {}
    ELSE {LogEntry(f.op, f.from[1],
                   [t |-> "attr", v |-> [node |-> f.node, a |-> f.a, test |-> test,
                                         at |-> at, depth |-> d]],
                   GetVariables(f.op), GetErrors(f.op), out)}

\* n[a], n.a, n.get(a)
Access_start(t) ==
    /\ Running(t) /\ Top(t).k = "access" /\ Top(t).pc = "start"
    /\ Top(t).op # "clone"
    /\ LET f == Top(t)
           r == CompValue_access(f.node, f.op, f.a)
       IN  IF r[1] = "out"
           THEN /\ stack' = [stack EXCEPT ![t] = Pop(@)]
                /\ ret' = [ret EXCEPT ![t] = r[2]]
                /\ log' = [log EXCEPT ![t] =
                       @ \cup AccessDone(f, nodes[f.node].ctx, nodes[f.node].ctx,
                                         Depth(t), r[2])]
           ELSE /\ stack' = [stack EXCEPT ![t] =
                       SetTop(@, [f EXCEPT !.pc = "call", !.test = nodes[f.node].ctx,
                                           !.pend = <<r[2]>>])]
                /\ ret' = [ret EXCEPT ![t] = NoRet]
                /\ log' = log
    /\ UNCHANGED <<nodes, call>>

\* "return value(self.ctx, val, variables)": self.ctx is read again for the call
Access_call(t) ==
    /\ Running(t) /\ Top(t).k = "access" /\ Top(t).pc = "call"
    /\ LET f == Top(t)
           ctx == IF nodes[f.node].ctx = NoCtx THEN NoneCtx ELSE nodes[f.node].ctx[1]
       IN  stack' = [stack EXCEPT ![t] =
               Append(SetTop(@, [f EXCEPT !.pc = IF f.op = "clone" THEN "wait" ELSE "ret",
                                          !.at = nodes[f.node].ctx, !.pend = <<>>]),
                      [f.pend[1] EXCEPT !.ctx = ctx])]
    /\ UNCHANGED <<nodes, ret, call, log>>

\* value() came back: its outcome is the outcome of the read
Access_return(t) ==
    /\ Running(t) /\ Top(t).k = "access" /\ Top(t).pc = "ret"
    /\ ret[t].k # "none"
    /\ stack' = [stack EXCEPT ![t] = Pop(@)]
    /\ log' = [log EXCEPT ![t] =
           @ \cup AccessDone(Top(t), Top(t).test, Top(t).at, Depth(t), ret[t])]
    /\ UNCHANGED <<nodes, ret, call>>

\* clone(): CompValue(self.name, **self) reads self[k] for each key k in order
Clone_item(t) ==
    /\ Running(t) /\ Top(t).k = "access" /\ Top(t).pc = "start"
    /\ Top(t).op = "clone"
    /\ Len(Top(t).acc) < Len(nodes[Top(t).node].keys)
    /\ LET f == Top(t)
           a == nodes[f.node].keys[Len(f.acc) + 1]
       IN  IF CompValue_getitem(f.node, a) = <<>>
           THEN stack' = [stack EXCEPT ![t] =
                    SetTop(@, [f EXCEPT !.acc = Append(@, RawItem(f.node, a))])]
           ELSE stack' = [stack EXCEPT ![t] =
                    SetTop(@, [f EXCEPT !.pc = "call", !.test = nodes[f.node].ctx,
                                        !.pend = CompValue_getitem(f.node, a)])]
    /\ ret' = [ret EXCEPT ![t] = NoRet]
    /\ UNCHANGED <<nodes, call, log>>

\* self[k] came back: keep the value, or let the exception leave clone()
Clone_resume(t) ==
    /\ Running(t) /\ Top(t).k = "access" /\ Top(t).pc = "wait"
    /\ ret[t].k # "none"
    /\ LET f == Top(t) IN
       IF ret[t].k = "raise"
       THEN /\ stack' = [stack EXCEPT ![t] = Pop(@)]
            /\ ret' = ret
            /\ log' = [log EXCEPT ![t] =
                   @ \cup AccessDone(f, f.test, f.at, Depth(t), ret[t])]
       ELSE /\ stack' = [stack EXCEPT ![t] =
                   SetTop(@, [f EXCEPT !.pc = "start", !.acc = Append(@, ret[t].v)])]
            /\ ret' = [ret EXCEPT ![t] = NoRet]
            /\ log' = log
    /\ UNCHANGED <<nodes, call>>

\* all items read: build the CompValue
Clone_new(t) ==
    /\ Running(t) /\ Top(t).k = "access" /\ Top(t).pc = "start"
    /\ Top(t).op = "clone"
    /\ Len(Top(t).acc) = Len(nodes[Top(t).node].keys)
    /\ LET f == Top(t)
           out == CompValue_init(nodes[f.node].name, nodes[f.node].keys, f.acc)
       IN  /\ stack' = [stack EXCEPT ![t] = Pop(@)]
           /\ ret' = [ret EXCEPT ![t] = out]
           /\ log' = [log EXCEPT ![t] =
                  @ \cup AccessDone(f, nodes[f.node].ctx, nodes[f.node].ctx, Depth(t), out)]
    /\ UNCHANGED <<nodes, call>>

(***************************************************************************)
(* Evaluation functions, run one operation at a time.                      *)
(***************************************************************************)
CurOp(f) == Program(nodes[f.node].evalfn)[f.pc]

\* history: self._evalfn(ctx) of node f.node ended with out
EvalfnDone(f, out) == LogEntry("evalfn", f.ctx, Obj(f.node), FALSE, FALSE, out)

\* self.a: CompValue.__getattr__(a)
Evalfn_getattr(t) ==
    /\ Running(t) /\ Top(t).k = "fn" /\ ~Top(t).wait
    /\ CurOp(Top(t)).o = "getattr"
    /\ LET f == Top(t) IN
       stack' = [stack EXCEPT ![t] =
           Append(SetTop(@, [f EXCEPT !.wait = TRUE]),
                  AccessFrame(f.node, "getattr", CurOp(f).a, <<f.ctx>>))]
    /\ ret' = [ret EXCEPT ![t] = NoRet]
    /\ UNCHANGED <<nodes, call, log>>

\* the contexts an evaluation function hands to a nested self.eval
NestCtxs == {c \in Ctxs : c[BNode(1)] = NoneVal /\ c[Var(1)] # StoredError}

\* self.eval(c) from the evaluation function of self; the call made by that
\* nested evaluation does not nest again
Evalfn_reenter(t) ==
    /\ Running(t) /\ Top(t).k = "fn" /\ ~Top(t).wait
    /\ CurOp(Top(t)).o = "reenter"
    /\ IF Depth(t) = 1
       THEN \E c \in NestCtxs :
               stack' = [stack EXCEPT ![t] =
                   Append(SetTop(@, [Top(t) EXCEPT !.wait = TRUE]),
                          EvalFrame(Top(t).node, c))]
       ELSE stack' = [stack EXCEPT ![t] =
                SetTop(@, [Top(t) EXCEPT !.pc = @ + 1, !.regs = Append(@, NoneVal)])]
    /\ ret' = [ret EXCEPT ![t] = NoRet]
    /\ UNCHANGED <<nodes, call, log>>

\* the names and the kinds of read an evaluation function may use on self
AccessNames == {"x", "z", "name", "clone", "_OrderedDict__root"}
Accesses ==
    {<<op, a>> : op \in {"getitem", "getattr"} \cup GetOps, a \in AccessNames}
    \cup {<<"clone", "">>}

\* one read of self, any of Accesses
Evalfn_access(t) ==
    /\ Running(t) /\ Top(t).k = "fn" /\ ~Top(t).wait
    /\ CurOp(Top(t)).o = "access"
    /\ \E r \in Accesses :
          stack' = [stack EXCEPT ![t] =
              Append(SetTop(@, [Top(t) EXCEPT !.wait = TRUE]),
                     AccessFrame(Top(t).node, r[1], r[2], <<Top(t).ctx>>))]
    /\ ret' = [ret EXCEPT ![t] = NoRet]
    /\ UNCHANGED <<nodes, call, log>>

\* the read's value() came back: bind the result, or let the exception leave
\* the evaluation function
Evalfn_resume(t) ==
    /\ Running(t) /\ Top(t).k = "fn" /\ Top(t).wait
    /\ ret[t].k # "none"
    /\ LET f == Top(t) IN
       IF ret[t].k = "raise"
       THEN /\ stack' = [stack EXCEPT ![t] = Pop(@)]
            /\ ret' = ret
            /\ log' = [log EXCEPT ![t] = @ \cup {EvalfnDone(f, ret[t])}]
       ELSE /\ stack' = [stack EXCEPT ![t] =
                   SetTop(@, [f EXCEPT !.pc = @ + 1, !.wait = FALSE,
                                       !.regs = Append(@, ret[t].v)])]
            /\ ret' = [ret EXCEPT ![t] = NoRet]
            /\ log' = log
    /\ UNCHANGED <<nodes, call>>

\* the last operation: return or raise
Evalfn_finish(t) ==
    /\ Running(t) /\ Top(t).k = "fn" /\ ~Top(t).wait
    /\ CurOp(Top(t)).o \in {"add", "first", "second", "fail", "crash"}
    /\ LET out == FnResult(CurOp(Top(t)).o, Top(t).regs) IN
       /\ stack' = [stack EXCEPT ![t] = Pop(@)]
       /\ ret' = [ret EXCEPT ![t] = out]
       /\ log' = [log EXCEPT ![t] = @ \cup {EvalfnDone(Top(t), out)}]
    /\ UNCHANGED <<nodes, call>>

(***************************************************************************)
(* Expr.eval(ctx)                                                          *)
(***************************************************************************)
\* Expr_eval_except catching SPARQLError itself but not its subclasses
Mut_eval_except_exact(r) ==
    IF r.k = "raise" /\ r.v.t = "SPARQLError" THEN Return(r.v) ELSE r

\* Expr_eval_except as a bare "except Exception as e: return e"
Mut_eval_except_all(r) ==
    IF r.k = "raise" THEN Return(r.v) ELSE r

\* except SPARQLError as e: return e   (anything else passes)
Expr_eval_except(r) ==
    IF r.k = "raise" /\ IsSPARQLError(r.v) THEN Return(r.v) ELSE r

\* Expr_eval_finally as a reset placed after the call instead of in finally:
\* skipped when the evaluation function raises
Mut_eval_finally_skipped(r, cur) == IF r.k = "raise" THEN cur ELSE NoCtx

\* Expr_eval_finally as a reset that the except clause bypasses: skipped when
\* a SPARQLError is caught and returned
Mut_eval_finally_bypassed(r, cur) ==
    IF r.k = "raise" /\ IsSPARQLError(r.v) THEN cur ELSE NoCtx

\* finally: self.ctx = None   (r: the outcome being left with, cur: self.ctx)
Expr_eval_finally(r, cur) == NoCtx

\* Expr_eval_attach as "if self.ctx is None: self.ctx = ctx": an attached
\* context is kept
Mut_Expr_eval_attach_ifabsent(t) ==
    /\ Running(t) /\ Top(t).k = "eval" /\ Top(t).pc = "attach"
    /\ nodes' = [nodes EXCEPT ![Top(t).node].ctx =
                     IF @ = NoCtx THEN Attached(Top(t).ctx) ELSE @]
    /\ stack' = [stack EXCEPT ![t] = SetTop(@, [Top(t) EXCEPT !.pc = "call"])]
    /\ UNCHANGED <<ret, call, log>>

\* try: self.ctx = ctx
Expr_eval_attach(t) ==
    /\ Running(t) /\ Top(t).k = "eval" /\ Top(t).pc = "attach"
    /\ nodes' = [nodes EXCEPT ![Top(t).node].ctx = Attached(Top(t).ctx)]
    /\ stack' = [stack EXCEPT ![t] = SetTop(@, [Top(t) EXCEPT !.pc = "call"])]
    /\ UNCHANGED <<ret, call, log>>

\* self._evalfn(ctx): calling None is a TypeError
Expr_eval_call(t) ==
    /\ Running(t) /\ Top(t).k = "eval" /\ Top(t).pc = "call"
    /\ LET f == Top(t) IN
       IF nodes[f.node].evalfn = "None"
       THEN /\ stack' = [stack EXCEPT ![t] = SetTop(@, [f EXCEPT !.pc = "finally"])]
            /\ ret' = [ret EXCEPT ![t] = Raise(PyTypeError)]
            /\ log' = [log EXCEPT ![t] = @ \cup {EvalfnDone(f, Raise(PyTypeError))}]
       ELSE /\ stack' = [stack EXCEPT ![t] =
                   Append(SetTop(@, [f EXCEPT !.pc = "finally"]),
                          FnFrame(f.node, f.ctx))]
            /\ ret' = [ret EXCEPT ![t] = NoRet]
            /\ log' = log
    /\ UNCHANGED <<nodes, call>>

\* the except and finally clauses, then the return or the propagating raise
Expr_eval_exit(t) ==
    /\ Running(t) /\ Top(t).k = "eval" /\ Top(t).pc = "finally"
    /\ ret[t].k # "none"
    /\ LET f == Top(t)
           out == Expr_eval_except(ret[t])
       IN  /\ nodes' = [nodes EXCEPT ![f.node].ctx =
                            Expr_eval_finally(ret[t], nodes[f.node].ctx)]
           /\ stack' = [stack EXCEPT ![t] = Pop(@)]
           /\ ret' = [ret EXCEPT ![t] = out]
           /\ log' = [log EXCEPT ![t] = @ \cup
                  {LogEntry("eval", f.ctx, Obj(f.node), FALSE, FALSE, out)}]
    /\ UNCHANGED call

(***************************************************************************)
(* Top-level calls made by the users of the module.                        *)
(***************************************************************************)
Seqs(S, n) == UNION {[1..m -> S] : m \in 0..n}

\* elements of the lists handed to value()
ListElems == {Var(1), Lit(0), Obj(1), Obj(3), List(<<BNode(1), Lit(0)>>)}

\* the val arguments handed to value()
ValueInputs ==
    {Lit(0), Lit(3), NoneVal, Var(1), BNode(1),
     ParseResults(<<>>), ParseResults(<<Var(1)>>), ParseResults(<<Var(1), Lit(0)>>),
     PList(<<Var(1), BNode(1)>>)}
    \cup {Obj(n) : n \in NodeIds}
    \cup {List(s) : s \in Seqs(ListElems, MaxLen)}

\* node.eval(ctx)
Call_eval(t, n, ctx) ==
    /\ Idle(t)
    /\ stack' = [stack EXCEPT ![t] = <<EvalFrame(n, ctx)>>]
    /\ ret' = [ret EXCEPT ![t] = NoRet]
    /\ call' = [call EXCEPT ![t] = [op |-> "eval", ctx |-> <<ctx>>, val |-> Obj(n),
                                    variables |-> FALSE, errors |-> FALSE]]
    /\ log' = [log EXCEPT ![t] = {}]
    /\ UNCHANGED nodes

\* value(ctx, val, variables, errors)
Call_value(t, ctx, val, variables, errors) ==
    /\ Idle(t)
    /\ stack' = [stack EXCEPT ![t] = <<ValueFrame(ctx, val, variables, errors)>>]
    /\ ret' = [ret EXCEPT ![t] = NoRet]
    /\ call' = [call EXCEPT ![t] = [op |-> "value", ctx |-> <<ctx>>, val |-> val,
                                    variables |-> variables, errors |-> errors]]
    /\ log' = [log EXCEPT ![t] = {}]
    /\ UNCHANGED nodes

\* the caller takes the outcome of its call
Call_return(t) ==
    /\ Done(t)
    /\ ret' = [ret EXCEPT ![t] = NoRet]
    /\ call' = [call EXCEPT ![t] = NoCall]
    /\ log' = [log EXCEPT ![t] = {}]
    /\ UNCHANGED <<nodes, stack>>

Init ==
    /\ nodes = InitNodes
    /\ stack = [t \in {1} |-> <<>>]
    /\ ret = [t \in {1} |-> NoRet]
    /\ call = [t \in {1} |-> NoCall]
    /\ log = [t \in {1} |-> {}]

Threads == DOMAIN stack

Next ==
    \/ \E t \in Threads :
          Idle(t) /\ \E n \in ExprIds, ctx \in Ctxs : Call_eval(t, n, ctx)
    \/ \E t \in Threads :
          Idle(t) /\ \E ctx \in Ctxs, val \in ValueInputs,
                        variables \in BOOLEAN, errors \in BOOLEAN :
                            Call_value(t, ctx, val, variables, errors)
    \/ \E t \in Threads : Call_return(t)
    \/ \E t \in Threads : Expr_eval_attach(t)
    \/ \E t \in Threads : Expr_eval_call(t)
    \/ \E t \in Threads : Expr_eval_exit(t)
    \/ \E t \in Threads : Evalfn_getattr(t)
    \/ \E t \in Threads : Access_start(t)
    \/ \E t \in Threads : Access_call(t)
    \/ \E t \in Threads : Access_return(t)
    \/ \E t \in Threads : Evalfn_resume(t)
    \/ \E t \in Threads : Evalfn_finish(t)
    \/ \E t \in Threads : value_start(t)
    \/ \E t \in Threads : value_list(t)
    \/ \E t \in Threads : value_elem(t)
    \/ \E t \in Threads : value_return(t)

Spec == Init /\ [][Next]_vars

(***************************************************************************)
(* Properties.                                                             *)
(***************************************************************************)
\* an eval of node n is in flight
InFlight(n) ==
    \E t \in Threads : \E i \in DOMAIN stack[t] :
        stack[t][i].k = "eval" /\ stack[t][i].node = n

Entries(t, op) == {e \in log[t] : e.op = op}

\* C1: whenever no eval of a node is in flight, the node's context is absent;
\* in particular it is absent the moment an eval of it has returned or raised,
\* whatever the evaluation function did.
C1_ContextDetached ==
    \A n \in NodeIds : ~InFlight(n) => nodes[n].ctx = NoCtx

\* an eval has just propagated a failure and left the node without context
C1_Witness ==
    \E t \in Threads :
        /\ Done(t) /\ call[t].op = "eval" /\ ret[t].k = "raise"
        /\ nodes[call[t].val.v].ctx = NoCtx

\* C2: an eval whose evaluation function raised a SPARQLError (NotBoundError
\* included) returns that error object as its value; an eval of the Sum node
\* whose attribute x holds a variable unbound in ctx returns NotBoundError.
C2_DomainErrorReturned ==
    \A t \in Threads :
        /\ \A e \in Entries(t, "eval"), g \in Entries(t, "evalfn") :
               (g.val = e.val /\ g.ctx = e.ctx /\ g.out.k = "raise"
                    /\ IsSPARQLError(g.out.v))
               => e.out = Return(g.out.v)
        /\ (Done(t) /\ call[t].op = "eval" /\ call[t].val = Obj(1)
                /\ call[t].ctx[1][Var(1)] = NoneVal)
           => ret[t] = Return(NotBoundError)

\* eval returned the NotBoundError raised by an attribute read
C2_Witness ==
    \E t \in Threads :
        /\ Done(t) /\ call[t].op = "eval" /\ ret[t] = Return(NotBoundError)
        /\ \E g \in Entries(t, "evalfn") : g.out = Raise(NotBoundError)

\* C3: an eval whose evaluation function failed with anything that is not a
\* SPARQLError (the unresolvable-node defect, calling an evaluation function
\* that was never set) raises that same failure, and the node's context is
\* already detached when it does.
C3_DefectPropagates ==
    \A t \in Threads :
        /\ \A e \in Entries(t, "eval"), g \in Entries(t, "evalfn") :
               (g.val = e.val /\ g.ctx = e.ctx /\ g.out.k = "raise"
                    /\ ~IsSPARQLError(g.out.v))
               => e.out = g.out
        /\ \A e \in Entries(t, "eval") :
               (e.out.k = "raise" /\ ~InFlight(e.val.v))
               => nodes[e.val.v].ctx = NoCtx
        /\ (Done(t) /\ call[t].op = "eval" /\ nodes[call[t].val.v].evalfn = "None")
           => ret[t] = Raise(PyTypeError)

\* an eval of the node without evaluation function has raised TypeError, and
\* so has one that met the defect
C3_Witness ==
    \E t \in Threads :
        /\ Done(t) /\ call[t].op = "eval" /\ ret[t] = Raise(PyTypeError)
        /\ nodes[call[t].val.v].evalfn = "None"
        /\ nodes[call[t].val.v].ctx = NoCtx

\* C4: for a variable or blank node v, value returns ctx.get(v) when that is
\* a value other than None and not an error (0 included), v itself when it is
\* None and variables is true, and raises NotBoundError when it is None and
\* variables is false.
C4_VariableLookup ==
    \A t \in Threads : \A e \in Entries(t, "value") :
        e.val.t \in {"Variable", "BNode"} =>
            LET r == CtxGet(e.ctx, e.val) IN
            /\ (r # NoneVal /\ ~IsSPARQLError(r)) => e.out = Return(r)
            /\ (r = NoneVal /\ e.variables) => e.out = Return(e.val)
            /\ (r = NoneVal /\ ~e.variables) => e.out = Raise(NotBoundError)

\* a blank node bound to the falsy literal 0 resolved to it, with variables set
C4_Witness ==
    \E t \in Threads : \E e \in Entries(t, "value") :
        /\ e.val = BNode(1) /\ e.variables
        /\ CtxGet(e.ctx, e.val) = Lit(0) /\ e.out = Return(Lit(0))

\* C5: when the lookup of a variable or blank node yields a stored error,
\* value raises that error if errors is false and returns it if errors is
\* true, whatever variables is; it never produces NotBoundError.
C5_StoredError ==
    \A t \in Threads : \A e \in Entries(t, "value") :
        (e.val.t \in {"Variable", "BNode"} /\ IsSPARQLError(CtxGet(e.ctx, e.val))) =>
            /\ ~e.errors => e.out = Raise(CtxGet(e.ctx, e.val))
            /\ e.errors => e.out = Return(CtxGet(e.ctx, e.val))

\* a stored error came back as a value, with errors set and variables not
C5_Witness ==
    \E t \in Threads : \E e \in Entries(t, "value") :
        /\ e.val = Var(1) /\ e.errors /\ ~e.variables
        /\ e.out = Return(StoredError)

RECURSIVE HasError(_)
\* v is an error value, or a sequence holding one
HasError(v) ==
    \/ IsSPARQLError(v)
    \/ v.t \in {"list", "plist", "ParseResults"}
          /\ \E i \in DOMAIN v.v : HasError(v.v[i])

RECURSIVE HasObject(_)
\* v is a CompValue or Expr, or a sequence holding one
HasObject(v) ==
    \/ v.t = "object"
    \/ v.t \in {"list", "plist", "ParseResults"}
          /\ \E i \in DOMAIN v.v : HasObject(v.v[i])

C7_ListElementwise ==
    \A t \in Threads : \A e \in Entries(t, "value") :
        IsList(e.val) =>
            /\ e.out.k = "val" =>
                 /\ e.out.v.t = "list"
                 /\ Len(e.out.v.v) = Len(e.val.v)
                 /\ \A i \in DOMAIN e.val.v :
                        \E g \in Entries(t, "value") :
                            /\ g.ctx = e.ctx /\ g.val = e.val.v[i]
                            /\ g.variables = e.variables /\ g.errors = e.errors
                            /\ g.out = Return(e.out.v.v[i])
            /\ e.out.k = "raise" =>
                 \E i \in DOMAIN e.val.v : \E g \in Entries(t, "value") :
                     /\ g.ctx = e.ctx /\ g.val = e.val.v[i]
                     /\ g.variables = e.variables /\ g.errors = e.errors
                     /\ g.out = e.out
            /\ \A i \in DOMAIN e.val.v : \A g \in Entries(t, "value") :
                   (/\ g.ctx = e.ctx /\ g.val = e.val.v[i]
                    /\ g.variables = e.variables /\ g.errors = e.errors
                    /\ g.out.k = "raise")
                   => e.out.k = "raise"

\* a list of an unbound variable and a nested list came back as a list of the
\* variable and a list, with variables set
C7_Witness ==
    \E t \in Threads :
        /\ Done(t) /\ call[t].op = "value" /\ call[t].variables
        /\ call[t].val = List(<<Var(1), List(<<BNode(1), Lit(0)>>)>>)
        /\ ret[t] = Return(List(<<Var(1), List(<<Lit(1), Lit(0)>>)>>))

\* C8: value on an Expr e returns the outcome of e.eval(ctx) with the ctx it
\* was given: the eval it calls is of e with that ctx, every eval nested in a
\* thread's call runs with the context of the outermost one, and e's context
\* is absent once value has returned.
C8_NestedEval ==
    \A t \in Threads :
        /\ \A e \in Entries(t, "value") :
               IsExpr(e.val) =>
                   /\ \E g \in Entries(t, "eval") :
                          g.val = e.val /\ g.ctx = e.ctx /\ g.out = e.out
                   /\ ~InFlight(e.val.v) => nodes[e.val.v].ctx = NoCtx
        /\ \A i \in DOMAIN stack[t] :
               (/\ i < Len(stack[t])
                /\ stack[t][i].k = "value" /\ stack[t][i].pc = "ret"
                /\ IsExpr(stack[t][i].val))
               => /\ stack[t][i + 1].k = "eval"
                  /\ stack[t][i + 1].node = stack[t][i].val.v
                  /\ stack[t][i + 1].ctx = stack[t][i].ctx
        /\ \A i, j \in DOMAIN stack[t] :
               (stack[t][i].k = "eval" /\ stack[t][j].k = "eval")
               => stack[t][i].ctx = stack[t][j].ctx

\* the Outer node, whose attribute x is the Sum node, evaluated to 1 + 4 with
\* the child resolved against the caller's context and left without context
C8_Witness ==
    \E t \in Threads :
        /\ Done(t) /\ call[t].op = "eval" /\ call[t].val = Obj(2)
        /\ ret[t] = Return(Lit(5))
        /\ \E e \in Entries(t, "value") :
               e.val = Obj(1) /\ e.ctx = call[t].ctx[1] /\ e.out = Return(Lit(1))
        /\ nodes[1].ctx = NoCtx

\* the raw values stored in node n
AttrVals(n) == {nodes[n].vals[i] : i \in DOMAIN nodes[n].vals}
IsPlainCompValue(val) == val.t = "object" /\ nodes[val.v].cls = "CompValue"

\* C9: value on a CompValue that is no Expr raises the defect Exception under
\* every context and every setting of the flags, and an eval during which an
\* attribute of the node resolved to that defect raises it instead of
\* returning it.
C9_CompValueDefect ==
    \A t \in Threads :
        /\ \A e \in Entries(t, "value") :
               IsPlainCompValue(e.val) => e.out = Raise(PyException)
        /\ \A g \in Entries(t, "eval") :
               (\E e \in Entries(t, "value") :
                    /\ IsPlainCompValue(e.val) /\ e.ctx = g.ctx
                    /\ e.val \in AttrVals(g.val.v))
               => g.out = Raise(PyException)

\* the eval of the Bad node, whose attribute x is a plain CompValue, raised
\* the defect
C9_Witness ==
    \E t \in Threads :
        /\ Done(t) /\ call[t].op = "eval" /\ call[t].val = Obj(5)
        /\ ret[t] = Raise(PyException)
        /\ \E e \in Entries(t, "value") : e.val = Obj(3)

\* val is none of: variable, blank node, Expr, CompValue, list, single-element
\* ParseResults
Concrete(val) ==
    /\ val.t \notin {"Variable", "BNode", "object", "list", "plist"}
    /\ ~(val.t = "ParseResults" /\ Len(val.v) = 1)

\* C10: value returns a concrete val itself, under every context and every
\* setting of the flags, and looks nothing up in the context.
C10_ConcreteIdentity ==
    \A t \in Threads :
        /\ \A e \in Entries(t, "value") : Concrete(e.val) => e.out = Return(e.val)
        /\ (Done(t) /\ call[t].op = "value" /\ Concrete(call[t].val))
           => /\ ret[t] = Return(call[t].val)
              /\ Entries(t, "lookup") = {}

\* a two-element ParseResults whose first element is a bound variable came
\* back unchanged
C10_Witness ==
    \E t \in Threads :
        /\ Done(t) /\ call[t].op = "value"
        /\ call[t].val = ParseResults(<<Var(1), Lit(0)>>)
        /\ call[t].ctx[1][Var(1)] = Lit(1)
        /\ ret[t] = Return(call[t].val)

(***************************************************************************)
(* Param and Comp: building a node from the tokens of one production.      *)
(***************************************************************************)
MaxTokens == 3     \* a production hands at most MaxTokens tokens to Comp.postParse

\* operations of the OrderedDict part of a node: a in d, d[a], d[a] = v
DictHas(d, a) == \E i \in DOMAIN d.keys : d.keys[i] = a
DictGet(d, a) == d.vals[CHOOSE i \in DOMAIN d.keys : d.keys[i] = a]
DictSet(d, a, v) ==
    IF DictHas(d, a)
    THEN [d EXCEPT !.vals[CHOOSE i \in DOMAIN d.keys : d.keys[i] = a] = v]
    ELSE [d EXCEPT !.keys = Append(@, a), !.vals = Append(@, v)]

IsSeqValue(x) == x.t \in {"list", "plist", "ParseResults"}

\* ParamValue.__init__(name, tokenList, isList): a one-element tokenList is
\* replaced by its element
ParamValue(name, tokenList, isList) ==
    [name |-> name, isList |-> isList,
     tokenList |-> IF IsSeqValue(tokenList) /\ Len(tokenList.v) = 1
                   THEN tokenList.v[1] ELSE tokenList]

\* a sub-match of Param(name, expr, isList) with the tokens expr matched
ParamMatch(name, match, isList) ==
    [t |-> "Param", v |-> [name |-> name, match |-> match, isList |-> isList]]

\* Param.postParse2, the parse action of a labeled sub-match; any other token
\* reaches Comp.postParse as it is
Param_postParse2(raw) ==
    IF raw.t = "Param"
    THEN [t |-> "ParamValue", v |-> ParamValue(raw.v.name, raw.v.match, raw.v.isList)]
    ELSE raw

\* a Comp(name, expr), with the evaluation function setEvalFn gave it or "None"
Comp(name, evalfn) == [name |-> name, evalfn |-> evalfn]

RECURSIVE scanFrom(_, _)
\* the matches of the ServiceGraphPattern production in instring from position
\* i on, as pairs <<first, last>>: here the production matches "SERVICE"
\* followed by one symbol, and the scan goes on after each match
scanFrom(instring, i) ==
    IF i + 1 > Len(instring) THEN <<>>
    ELSE IF instring[i] = "SERVICE"
         THEN <<(<<i, i + 1>>)>> \o scanFrom(instring, i + 2)
         ELSE scanFrom(instring, i + 1)

\* originalTextFor(self.expr).searchString(instring)
searchString(instring) ==
    [k \in DOMAIN scanFrom(instring, 1) |->
        SubSeq(instring, scanFrom(instring, 1)[k][1], scanFrom(instring, 1)[k][2])]

\* sgp.searchString(instring)[0][0]
service_string(instring, loc) == Str(searchString(instring)[1])

\* variant: service_string is stored whether or not an evalfn is registered
Mut_postParse_new_always(comp, instring, loc) ==
    IF comp.name = "ServiceGraphPattern"
    THEN Node(IF comp.evalfn # "None" THEN "Expr" ELSE "CompValue", comp.name,
              comp.evalfn, <<"service_string">>, <<service_string(instring, loc)>>)
    ELSE Node(IF comp.evalfn # "None" THEN "Expr" ELSE "CompValue", comp.name,
              comp.evalfn, <<>>, <<>>)

\* the node postParse starts from
postParse_new(comp, instring, loc) ==
    IF comp.evalfn # "None"
    THEN Node("Expr", comp.name, comp.evalfn, <<>>, <<>>)
    ELSE IF comp.name = "ServiceGraphPattern"
         THEN Node("CompValue", comp.name, "None",
                   <<"service_string">>, <<service_string(instring, loc)>>)
         ELSE Node("CompValue", comp.name, "None", <<>>, <<>>)

\* variant: every list-labeled occurrence starts a fresh plist
Mut_postParse_token_newlist(res, tok) ==
    IF tok.t # "ParamValue" THEN <<res>>
    ELSE IF ~tok.v.isList THEN <<DictSet(res, tok.v.name, tok.v.tokenList)>>
    ELSE <<DictSet(res, tok.v.name, PList(<<tok.v.tokenList>>))>>

\* variant: a scalar name keeps the value of its first occurrence
Mut_postParse_token_first(res, tok) ==
    IF tok.t # "ParamValue" THEN <<res>>
    ELSE IF ~tok.v.isList
    THEN IF DictHas(res, tok.v.name) THEN <<res>>
         ELSE <<DictSet(res, tok.v.name, tok.v.tokenList)>>
    ELSE LET r == IF DictHas(res, tok.v.name) THEN res
                  ELSE DictSet(res, tok.v.name, PList(<<>>))
             old == DictGet(r, tok.v.name)
         IN  IF IsSeqValue(old)
             THEN <<DictSet(r, tok.v.name,
                            [old EXCEPT !.v = Append(@, tok.v.tokenList)])>>
             ELSE <<r, AttributeError>>

\* the body of "for t in tokenList", on the node res; acc is <<res>> or, once
\* an append has failed, <<res, exception>>
postParse_token(res, tok) ==
    IF tok.t # "ParamValue" THEN <<res>>
    ELSE IF ~tok.v.isList THEN <<DictSet(res, tok.v.name, tok.v.tokenList)>>
    ELSE LET r == IF DictHas(res, tok.v.name) THEN res
                  ELSE DictSet(res, tok.v.name, PList(<<>>))
             old == DictGet(r, tok.v.name)
         IN  IF IsSeqValue(old)
             THEN <<DictSet(r, tok.v.name,
                            [old EXCEPT !.v = Append(@, tok.v.tokenList)])>>
             ELSE <<r, AttributeError>>

RECURSIVE postParse_loop(_, _, _)
postParse_loop(res, tokenList, i) ==
    IF i > Len(tokenList) THEN Return([t |-> "node", v |-> res])
    ELSE LET acc == postParse_token(res, tokenList[i]) IN
         IF Len(acc) = 2 THEN Raise(acc[2])
         ELSE postParse_loop(acc[1], tokenList, i + 1)

\* Comp.postParse(instring, loc, tokenList)
postParse(comp, instring, loc, tokenList) ==
    postParse_loop(postParse_new(comp, instring, loc), tokenList, 1)

\* the inputs of the model
Matches == {ParseResults(<<Lit(1)>>), ParseResults(<<Lit(2)>>),
            ParseResults(<<Lit(1), Lit(2)>>)}
RawTokens ==
    {ParamMatch("x", m, l) : m \in Matches, l \in BOOLEAN}
    \cup {ParamMatch("y", ParseResults(<<Lit(1)>>), FALSE),
          ParamMatch("y", ParseResults(<<Lit(2)>>), TRUE),
          Str("+")}
OneService == <<"SERVICE", "a">>
TwoServices == <<"SERVICE", "a", "x", "SERVICE", "b">>
ParseInputs ==
    {[comp |-> Comp("Sum", f), instring |-> <<"3", "+", "4">>, loc |-> 1] :
        f \in {"None", "Sum"}}
    \cup {[comp |-> Comp("ServiceGraphPattern", f), instring |-> sl[1], loc |-> sl[2]] :
        f \in {"None", "First"},
        sl \in {<<OneService, 1>>, <<TwoServices, 1>>, <<TwoServices, 4>>}}

PostParseFrame(in, raws) ==
    [k |-> "postParse", comp |-> in.comp, instring |-> in.instring,
     loc |-> in.loc, raws |-> raws]

\* the production in.comp matched at in.loc of in.instring, its sub-matches raws
Call_postParse(t, in, raws) ==
    /\ Idle(t)
    /\ stack' = [stack EXCEPT ![t] = <<PostParseFrame(in, raws)>>]
    /\ ret' = [ret EXCEPT ![t] = NoRet]
    /\ call' = [call EXCEPT ![t] = [op |-> "postParse", comp |-> in.comp,
                   instring |-> in.instring, loc |-> in.loc, raws |-> raws]]
    /\ log' = [log EXCEPT ![t] = {}]
    /\ UNCHANGED nodes

\* the parse actions: Param.postParse2 on each labeled sub-match, then
\* Comp.postParse on the tokens
Comp_postParse(t) ==
    /\ Running(t) /\ Top(t).k = "postParse"
    /\ LET f == Top(t)
           tokenList == [i \in DOMAIN f.raws |-> Param_postParse2(f.raws[i])]
       IN  ret' = [ret EXCEPT ![t] = postParse(f.comp, f.instring, f.loc, tokenList)]
    /\ stack' = [stack EXCEPT ![t] = Pop(@)]
    /\ UNCHANGED <<nodes, call, log>>

NextParse ==
    \/ \E t \in Threads :
          Idle(t) /\ \E in \in ParseInputs, raws \in Seqs(RawTokens, MaxTokens) :
                        Call_postParse(t, in, raws)
    \/ \E t \in Threads : Comp_postParse(t)
    \/ \E t \in Threads : Call_return(t)

SpecParse == Init /\ [][NextParse]_vars

(***************************************************************************)
(* Properties of Comp.postParse                                            *)
(***************************************************************************)
\* thread t's production has been built (or building it has failed)
Parsed(t) == Done(t) /\ call[t].op = "postParse"
Built(t) == Parsed(t) /\ ret[t].k = "val"
IsLabeled(raw) == raw.t = "Param"
LabeledNames(raws) == {raws[i].v.name : i \in {j \in DOMAIN raws : IsLabeled(raws[j])}}
\* the labeled sub-matches named a, in match order
Occurrences(raws, a) ==
    SelectSeq(raws, LAMBDA r : IsLabeled(r) /\ r.v.name = a)
DistinctNames(raws) == \A a \in LabeledNames(raws) : Len(Occurrences(raws, a)) = 1
KeySet(d) == {d.keys[i] : i \in DOMAIN d.keys}
\* the value a labeled sub-match contributes: the single token, or the tokens
Collapsed(match) == IF Len(match.v) = 1 THEN match.v[1] ELSE match

\* C11 as stated: with pairwise distinct labeled names the key set of the built
\* node is exactly the set of labeled names, for any tag, with or without an
\* evaluation function
C11_Original ==
    \A t \in Threads :
        Parsed(t) /\ DistinctNames(call[t].raws) =>
            /\ Built(t)
            /\ KeySet(ret[t].v.v) = LabeledNames(call[t].raws)

\* C11 amended: with pairwise distinct labeled names the key set is exactly the
\* set of labeled names, plus service_string when the tag is
\* ServiceGraphPattern and no evaluation function is registered
C11_KeySet ==
    \A t \in Threads :
        Parsed(t) /\ DistinctNames(call[t].raws) =>
            /\ Built(t)
            /\ KeySet(ret[t].v.v) =
                   LabeledNames(call[t].raws) \cup
                   (IF call[t].comp.name = "ServiceGraphPattern"
                       /\ call[t].comp.evalfn = "None"
                    THEN {"service_string"} ELSE {})

C11_Witness ==
    \E t \in Threads :
        /\ Built(t) /\ DistinctNames(call[t].raws)
        /\ call[t].comp = Comp("ServiceGraphPattern", "First")
        /\ Len(call[t].raws) = 3 /\ call[t].raws[2] = Str("+")
        /\ KeySet(ret[t].v.v) = {"x", "y"}

\* C12: a name that is list-labeled at each of its m >= 1 occurrences holds, in
\* the built node, the plist of the collapsed values of the occurrences in
\* match order, whatever other tokens lie between them
C12_ListInOrder ==
    \A t \in Threads : \A a \in {"x", "y"} :
        LET occ == Occurrences(call[t].raws, a) IN
        /\ Built(t) /\ Len(occ) >= 1
        /\ \A i \in DOMAIN occ : occ[i].v.isList
        => /\ DictHas(ret[t].v.v, a)
           /\ DictGet(ret[t].v.v, a) =
                  PList([i \in DOMAIN occ |-> Collapsed(occ[i].v.match)])

C12_Witness ==
    \E t \in Threads :
        /\ Built(t) /\ Len(call[t].raws) = 3
        /\ call[t].raws[1] = ParamMatch("x", ParseResults(<<Lit(2)>>), TRUE)
        /\ ~IsLabeled(call[t].raws[2])
        /\ call[t].raws[3] = ParamMatch("x", ParseResults(<<Lit(1), Lit(2)>>), TRUE)
        /\ DictGet(ret[t].v.v, "x") =
               PList(<<Lit(2), ParseResults(<<Lit(1), Lit(2)>>)>>)

\* every name is labeled the same way, list or scalar, wherever it occurs
Consistent(raws) ==
    \A a \in LabeledNames(raws) : \A i, j \in DOMAIN Occurrences(raws, a) :
        Occurrences(raws, a)[i].v.isList = Occurrences(raws, a)[j].v.isList

\* C13: repeating a scalar name does not make the build fail, the name holds
\* the collapsed value of its last occurrence, and it is one key of the node
C13_LastWriteWins ==
    \A t \in Threads :
        /\ (Parsed(t) /\ Consistent(call[t].raws) => Built(t))
        /\ \A a \in {"x", "y"} :
              LET occ == Occurrences(call[t].raws, a) IN
              /\ Built(t) /\ Len(occ) >= 1
              /\ \A i \in DOMAIN occ : ~occ[i].v.isList
              => /\ DictHas(ret[t].v.v, a)
                 /\ DictGet(ret[t].v.v, a) = Collapsed(occ[Len(occ)].v.match)
                 /\ Cardinality({i \in DOMAIN ret[t].v.v.keys :
                                    ret[t].v.v.keys[i] = a}) = 1

C13_Witness ==
    \E t \in Threads :
        /\ Built(t) /\ Len(call[t].raws) = 3
        /\ call[t].raws[1] = ParamMatch("x", ParseResults(<<Lit(1)>>), FALSE)
        /\ call[t].raws[2] = ParamMatch("x", ParseResults(<<Lit(1), Lit(2)>>), FALSE)
        /\ call[t].raws[3] = ParamMatch("x", ParseResults(<<Lit(2)>>), FALSE)
        /\ ret[t].v.v.keys = <<"x">> /\ ret[t].v.v.vals = <<Lit(2)>>

\* the source text of the match of the production that starts at loc
OwnText(instring, loc) == Str(SubSeq(instring, loc, loc + 1))

\* C14 as stated: every node built with the tag ServiceGraphPattern holds under
\* service_string the source text of its own match, for every input and
\* whether or not an evaluation function is registered
C14_ServiceString ==
    \A t \in Threads :
        Built(t) /\ call[t].comp.name = "ServiceGraphPattern" =>
            /\ DictHas(ret[t].v.v, "service_string")
            /\ DictGet(ret[t].v.v, "service_string") =
                   OwnText(call[t].instring, call[t].loc)

(***************************************************************************)
(* Reads and clone() of nodes, outside and inside an evaluation.           *)
(***************************************************************************)
ReadNodes ==
    <<Node("Expr", "Sum", "Probe", <<"x", "y">>, <<Var(1), Lit(4)>>),
      Node("Expr", "Tagged", "Probe", <<"name", "x">>, <<BNode(1), Lit(3)>>),
      Node("CompValue", "Plain", "None", <<"x">>, <<Var(1)>>)>>

\* node[a], node.a, node.get(a) or node.clone() by a caller outside any evaluation
Call_access(t, n, op, a) ==
    /\ Idle(t)
    /\ stack' = [stack EXCEPT ![t] = <<AccessFrame(n, op, a, <<>>)>>]
    /\ ret' = [ret EXCEPT ![t] = NoRet]
    /\ call' = [call EXCEPT ![t] = [op |-> "access", node |-> n, access |-> op, a |-> a]]
    /\ log' = [log EXCEPT ![t] = {}]
    /\ UNCHANGED nodes

InitRead ==
    /\ nodes = ReadNodes
    /\ stack = [t \in {1} |-> <<>>]
    /\ ret = [t \in {1} |-> NoRet]
    /\ call = [t \in {1} |-> NoCall]
    /\ log = [t \in {1} |-> {}]

NextRead ==
    \/ \E t \in Threads :
          Idle(t) /\ \E n \in {m \in DOMAIN ReadNodes : ReadNodes[m].cls = "Expr"},
                        ctx \in Ctxs : Call_eval(t, n, ctx)
    \/ \E t \in Threads :
          Idle(t) /\ \E n \in DOMAIN ReadNodes, r \in Accesses :
                        Call_access(t, n, r[1], r[2])
    \/ \E t \in Threads : Call_return(t)
    \/ \E t \in Threads : Expr_eval_attach(t)
    \/ \E t \in Threads : Expr_eval_call(t)
    \/ \E t \in Threads : Expr_eval_exit(t)
    \/ \E t \in Threads : Evalfn_access(t)
    \/ \E t \in Threads : Access_start(t)
    \/ \E t \in Threads : Access_call(t)
    \/ \E t \in Threads : Access_return(t)
    \/ \E t \in Threads : Clone_item(t)
    \/ \E t \in Threads : Clone_resume(t)
    \/ \E t \in Threads : Clone_new(t)
    \/ \E t \in Threads : Evalfn_resume(t)
    \/ \E t \in Threads : Evalfn_finish(t)
    \/ \E t \in Threads : value_start(t)

SpecRead == InitRead /\ [][NextRead]_vars

\* the finished reads of kind op that thread t's evaluation function made
Reads(t, ops) == {e \in log[t] : e.op \in ops}
\* thread t's read of kind op from outside an evaluation has ended
ReadDone(t, ops) == Done(t) /\ call[t].op = "access" /\ call[t].access \in ops
\* the read e found the name stored / found a context attached
Stored(n, a) == \E i \in DOMAIN ReadNodes[n].keys : ReadNodes[n].keys[i] = a
RawOf(n, a) ==
    ReadNodes[n].vals[CHOOSE i \in DOMAIN ReadNodes[n].keys : ReadNodes[n].keys[i] = a]
\* value(ctx, raw) was called for the read and ended with out
Resolved(t, ctx, raw, out) ==
    \E v \in Entries(t, "value") :
        /\ v.ctx = ctx /\ v.val = raw /\ ~v.variables
        /\ v.out = out
        /\ raw.t \in {"Variable", "BNode"} /\ ctx[raw] \notin {NoneVal, StoredError}
              => out = Return(ctx[raw])

\* C15: a keyed read or get of a stored name returns value(ctx, raw) while the
\* node is evaluating with ctx, and the raw stored value while no context is
\* attached
C15_ReadResolves ==
    \A t \in Threads :
        /\ \A e \in Reads(t, {"getitem", "get"}) :
              Stored(e.val.v.node, e.val.v.a) =>
                  /\ e.val.v.at = Attached(e.ctx)
                  /\ Resolved(t, e.ctx, RawOf(e.val.v.node, e.val.v.a), e.out)
        /\ ReadDone(t, {"getitem", "get"}) /\ Stored(call[t].node, call[t].a) =>
              ret[t] = Return(RawOf(call[t].node, call[t].a))

C15_Witness ==
    \E t \in Threads : \E e \in Reads(t, {"getitem"}) :
        /\ e.val.v.node = 1 /\ e.val.v.a = "x"
        /\ e.ctx[Var(1)] = Lit(1)
        /\ e.out = Return(Lit(1))

\* an evaluation function of thread t is running: its node has its context
Evaluating(t) ==
    \A i \in DOMAIN stack[t] :
        stack[t][i].k = "fn" => nodes[stack[t][i].node].ctx = Attached(stack[t][i].ctx)
Unchanged(n) ==
    /\ nodes[n].keys = ReadNodes[n].keys /\ nodes[n].vals = ReadNodes[n].vals
    /\ nodes[n].name = ReadNodes[n].name

\* C16 as stated: an attribute-style read of a name that is not stored returns
\* None and never fails, idle or evaluating, and changes nothing of the node
C16_Original ==
    \A t \in Threads :
        /\ \A e \in Reads(t, {"getattr"}) :
              ~Stored(e.val.v.node, e.val.v.a) => e.out = Return(NoneVal)
        /\ ReadDone(t, {"getattr"}) /\ ~Stored(call[t].node, call[t].a) =>
              ret[t] = Return(NoneVal)
        /\ Evaluating(t)
        /\ \A n \in DOMAIN nodes : Unchanged(n)

\* a name normal attribute lookup does not find and __getattr__ does not refuse
Plain(a) == a \notin ObjectAttrs \cup Methods \cup Reserved

\* C16 amended: an attribute-style read of a name that is not stored, is no
\* attribute or method of the object and is not one of the two reserved
\* names returns None, idle or evaluating, and changes nothing of the node
C16_AbsentIsNone ==
    \A t \in Threads :
        /\ \A e \in Reads(t, {"getattr"}) :
              ~Stored(e.val.v.node, e.val.v.a) /\ Plain(e.val.v.a) =>
                  e.out = Return(NoneVal)
        /\ ReadDone(t, {"getattr"}) /\ ~Stored(call[t].node, call[t].a)
              /\ Plain(call[t].a) => ret[t] = Return(NoneVal)
        /\ Evaluating(t)
        /\ \A n \in DOMAIN nodes : Unchanged(n)

C16_Witness ==
    \E t \in Threads : \E e \in Reads(t, {"getattr"}) :
        /\ e.val.v.a = "z" /\ e.val.v.at = Attached(e.ctx)
        /\ e.out = Return(NoneVal)

\* C17 as stated: for every stored name, whatever it is, node.a returns what
\* node[a] returns, idle and evaluating
C17_AccessAgree ==
    \A t \in Threads :
        /\ \A e \in Reads(t, {"getattr"}) :
              Stored(e.val.v.node, e.val.v.a) =>
                  Resolved(t, e.ctx, RawOf(e.val.v.node, e.val.v.a), e.out)
        /\ ReadDone(t, {"getattr"}) /\ Stored(call[t].node, call[t].a) =>
              ret[t] = Return(RawOf(call[t].node, call[t].a))

\* the shallow copy of node n: tag, names in order, raw values, no context
ShallowCopy(n) ==
    [t |-> "node", v |-> Node("CompValue", ReadNodes[n].name, "None",
                             ReadNodes[n].keys, ReadNodes[n].vals)]

\* C18 as stated: clone() of a node, idle or evaluating, returns a node with
\* the same tag, the same names in order with the same raw values and no
\* context, and leaves the original unchanged
C18_CloneShallow ==
    \A t \in Threads :
        /\ \A e \in Reads(t, {"clone"}) : e.out = Return(ShallowCopy(e.val.v.node))
        /\ ReadDone(t, {"clone"}) => ret[t] = Return(ShallowCopy(call[t].node))
        /\ \A n \in DOMAIN nodes : Unchanged(n)

(***************************************************************************)
(* TSVResultParser: the tab separated result format.  A line of the source *)
(* is a sequence of symbols, each the tab or one term; the line end is     *)
(* implicit.                                                               *)
(***************************************************************************)
MaxCols == 2       \* the header names at most MaxCols variables
MaxLines == 2      \* the source has at most MaxLines data lines

TAB == [t |-> "tab", v |-> 0]
NONE_VALUE == [t |-> "NONE_VALUE", v |-> 0]
\* a field of a data line: empty, a numeric literal, or a quoted string
EmptyField == [t |-> "empty", v |-> 0]
QuotedString == [t |-> "quoted", v |-> 0]
Fields == {EmptyField, Lit(1), QuotedString}

RECURSIVE JoinTabs(_)
\* the text of a line whose fields are fs: the fields separated by tabs, an
\* empty field contributing no symbol
JoinTabs(fs) ==
    IF fs = <<>> THEN <<>>
    ELSE (IF Head(fs) = EmptyField THEN <<>> ELSE <<Head(fs)>>)
         \o (IF Len(fs) > 1 THEN <<TAB>> \o JoinTabs(Tail(fs)) ELSE <<>>)

\* TERM: what the term at the head of the text parses to; a quoted string is
\* an RDFLITERAL, a Comp with the tag literal
TERM(sym) ==
    IF sym = QuotedString
    THEN [t |-> "node", v |-> Node("CompValue", "literal", "None",
                                   <<"string">>, <<Str("s")>>)]
    ELSE sym

RECURSIVE ROW_from(_, _, _)
\* ROW = (EMPTY | TERM) + ZeroOrMore(Suppress(TAB) + (EMPTY | TERM)), matched
\* from position i with the tokens acc so far; EMPTY matches without
\* consuming where the line ends or a tab follows.  ok tells whether the
\* whole line matched (parseAll), tokens are the tokens of the match
ROW_from(line, i, acc) ==
    LET empty == i > Len(line) \/ line[i] = TAB
        tok == IF empty THEN NONE_VALUE ELSE TERM(line[i])
        j == IF empty THEN i ELSE i + 1
    IN  IF j > Len(line) THEN [ok |-> TRUE, tokens |-> Append(acc, tok)]
        ELSE IF line[j] = TAB THEN ROW_from(line, j + 1, Append(acc, tok))
        ELSE [ok |-> FALSE, tokens |-> <<>>]

\* ROW.parseString(line, parseAll=True)
ROW(line) == ROW_from(line, 1, <<>>)

\* TSVResultParser.convertTerm(t)
convertTerm(tok) ==
    IF tok = NONE_VALUE THEN NoneVal
    ELSE IF tok.t = "node"
    THEN [t |-> "RDFLiteral", v |-> DictGet(tok.v, "string")]
    ELSE tok

\* dict(zip(r.vars, (self.convertTerm(x) for x in row)))
Binding(rvars, row) ==
    LET n == IF Len(rvars) < Len(row) THEN Len(rvars) ELSE Len(row) IN
    [v \in {rvars[i] : i \in 1..n} |->
        convertTerm(row[CHOOSE i \in 1..n : rvars[i] = v])]

\* HEADER.parseString(header.strip(), parseAll=True): the variables between tabs
HEADER(line) == SelectSeq(line, LAMBDA sym : sym # TAB)

TsvFrame(source) ==
    [k |-> "tsv", source |-> source, pc |-> "header", vars |-> <<>>, bindings |-> <<>>]

\* TSVResultParser().parse(source) on a source with the header naming ncols
\* variables and one data line for each element of rows, a tuple of fields
Call_parse(t, ncols, rows) ==
    /\ Idle(t)
    /\ stack' = [stack EXCEPT ![t] =
           <<TsvFrame(<<JoinTabs([i \in 1..ncols |-> Var(i)])>>
                      \o [i \in DOMAIN rows |-> JoinTabs(rows[i])])>>]
    /\ ret' = [ret EXCEPT ![t] = NoRet]
    /\ call' = [call EXCEPT ![t] = [op |-> "parse", ncols |-> ncols, rows |-> rows]]
    /\ log' = [log EXCEPT ![t] = {}]
    /\ UNCHANGED nodes

\* header = source.readline(); r.vars = ...; r.bindings = []
TSV_header(t) ==
    /\ Running(t) /\ Top(t).k = "tsv" /\ Top(t).pc = "header"
    /\ stack' = [stack EXCEPT ![t] =
           SetTop(@, [Top(t) EXCEPT !.pc = "lines", !.source = Tail(@),
                                    !.vars = HEADER(Head(Top(t).source))])]
    /\ UNCHANGED <<nodes, ret, call, log>>

\* one turn of the while loop on a line that was read: an empty line is
\* skipped, any other is parsed as a ROW and its binding appended
TSV_line(t) ==
    /\ Running(t) /\ Top(t).k = "tsv" /\ Top(t).pc = "lines"
    /\ Top(t).source # <<>>
    /\ LET f == Top(t)
           line == Head(f.source)
       IN  IF line = <<>>
           THEN /\ stack' = [stack EXCEPT ![t] = SetTop(@, [f EXCEPT !.source = Tail(@)])]
                /\ ret' = ret
           ELSE IF ~ROW(line).ok
           THEN /\ stack' = [stack EXCEPT ![t] = Pop(@)]
                /\ ret' = [ret EXCEPT ![t] = Raise([t |-> "ParseException", v |-> 0])]
           ELSE /\ stack' = [stack EXCEPT ![t] =
                       SetTop(@, [f EXCEPT !.source = Tail(@),
                                           !.bindings = Append(@, Binding(f.vars, ROW(line).tokens))])]
                /\ ret' = ret
    /\ UNCHANGED <<nodes, call, log>>

\* "if not line: break" and "return r"
TSV_return(t) ==
    /\ Running(t) /\ Top(t).k = "tsv" /\ Top(t).pc = "lines"
    /\ Top(t).source = <<>>
    /\ stack' = [stack EXCEPT ![t] = Pop(@)]
    /\ ret' = [ret EXCEPT ![t] =
           Return([t |-> "Result", v |-> [vars |-> Top(t).vars,
                                          bindings |-> Top(t).bindings]])]
    /\ UNCHANGED <<nodes, call, log>>

\* the data lines with exactly ncols fields
Rows(ncols) == [1..ncols -> Fields]

NextTsv ==
    \/ \E t \in Threads :
          Idle(t) /\ \E ncols \in 1..MaxCols : \E rows \in Seqs(Rows(ncols), MaxLines) :
                        Call_parse(t, ncols, rows)
    \/ \E t \in Threads : TSV_header(t)
    \/ \E t \in Threads : TSV_line(t)
    \/ \E t \in Threads : TSV_return(t)
    \/ \E t \in Threads : Call_return(t)

SpecTsv == Init /\ [][NextTsv]_vars

\* C19 as stated: the result has one binding per data line, in input order,
\* and in each binding an empty field binds its column's variable to None,
\* also on a data line all of whose fields are empty
C19_OneRecordPerLine ==
    \A t \in Threads :
        Done(t) /\ call[t].op = "parse" =>
            /\ ret[t].k = "val"
            /\ Len(ret[t].v.v.bindings) = Len(call[t].rows)
            /\ \A i \in DOMAIN call[t].rows : \A j \in 1..call[t].ncols :
                  /\ Var(j) \in DOMAIN ret[t].v.v.bindings[i]
                  /\ ret[t].v.v.bindings[i][Var(j)] =
                         (IF call[t].rows[i][j] = EmptyField THEN NoneVal
                          ELSE convertTerm(TERM(call[t].rows[i][j])))

(***************************************************************************)
(* Evaluations of one node that overlap: eval re-entered from the node's   *)
(* own evaluation function, and evals of two threads interleaved.          *)
(***************************************************************************)
NestNodes ==
    <<Node("Expr", "Again", "Reenter", <<"x">>, <<Var(1)>>),
      Node("Expr", "Shared", "First", <<"x">>, <<Var(1)>>)>>

InitNested ==
    /\ nodes = NestNodes
    /\ stack = [t \in {1, 2} |-> <<>>]
    /\ ret = [t \in {1, 2} |-> NoRet]
    /\ call = [t \in {1, 2} |-> NoCall]
    /\ log = [t \in {1, 2} |-> {}]

\* thread 1 evaluates both nodes, thread 2 the shared one
NestTargets(t) == IF t = 1 THEN {1, 2} ELSE {2}

NextNested ==
    \/ \E t \in Threads :
          Idle(t) /\ \E n \in NestTargets(t), ctx \in NestCtxs : Call_eval(t, n, ctx)
    \/ \E t \in Threads : Call_return(t)
    \/ \E t \in Threads : Expr_eval_attach(t)
    \/ \E t \in Threads : Expr_eval_call(t)
    \/ \E t \in Threads : Expr_eval_exit(t)
    \/ \E t \in Threads : Evalfn_reenter(t)
    \/ \E t \in Threads : Evalfn_getattr(t)
    \/ \E t \in Threads : Access_start(t)
    \/ \E t \in Threads : Access_call(t)
    \/ \E t \in Threads : Access_return(t)
    \/ \E t \in Threads : Evalfn_resume(t)
    \/ \E t \in Threads : Evalfn_finish(t)
    \/ \E t \in Threads : value_start(t)

SpecNested == InitNested /\ [][NextNested]_vars

\* C20: eval attaches its context whatever is attached and resets it to absent
\* on exit.  With overlapping evals of one node, every read resolves against
\* the context attached at the time of the read, not the reader's own: the
\* reads of a nested eval(c2) resolve against c2; after the nested eval has
\* exited the context is absent and the outer call's reads return the raw
\* value; a context reset between the test and the call inside _value makes
\* the read call value(None, raw).
C20_Overlap ==
    \A t \in Threads : \A e \in Reads(t, {"getattr"}) :
        LET r == e.val.v
            raw == RawItem(r.node, r.a)
        IN  /\ r.test = NoCtx => e.out = Return(raw)
            /\ r.test # NoCtx /\ r.at # NoCtx => Resolved(t, r.at[1], raw, e.out)
            /\ r.test # NoCtx /\ r.at = NoCtx => e.out = Raise(AttributeError)
            /\ r.node = 1 /\ r.depth = 2 =>
                  r.test = Attached(e.ctx) /\ r.at = Attached(e.ctx)
            /\ r.node = 1 /\ r.depth = 1 => r.test = NoCtx

\* thread 1's eval of Again with x bound to 1 re-entered with x bound to 0: the
\* inner read gave 0, the outer read and the eval gave the raw variable; and
\* thread 2's eval of Shared with x bound to 1 gave the raw variable
C20_Witness ==
    /\ Done(1) /\ call[1].op = "eval" /\ call[1].val = Obj(1)
    /\ call[1].ctx[1][Var(1)] = Lit(1)
    /\ ret[1] = Return(Var(1))
    /\ \E e \in Reads(1, {"getattr"}) :
          /\ e.val.v.depth = 2 /\ e.ctx[Var(1)] = Lit(0)
          /\ e.out = Return(Lit(0))
    /\ \E e \in Reads(1, {"getattr"}) :
          /\ e.val.v.depth = 1 /\ e.ctx[Var(1)] = Lit(1)
          /\ e.out = Return(Var(1))
    /\ Done(2) /\ call[2].op = "eval" /\ call[2].val = Obj(2)
    /\ call[2].ctx[1][Var(1)] = Lit(1)
    /\ ret[2] = Return(Var(1))

(***************************************************************************)
(* Strictly sequential evaluations of one parsed tree: each eval starts    *)
(* when the one before has returned or raised, and the history of the      *)
(* finished evals is kept.                                                 *)
(***************************************************************************)
MaxCalls == 2      \* evals made one after the other on the tree

\* the nodes evaluated: Sum, Outer (which evaluates Sum), Fail and Crash
SeqTargets == {1, 2, 6, 7}
\* the contexts handed to them: the blank node bound, the variable free
SeqCtxs == {c \in Ctxs : c[BNode(1)] = Lit(1)}

\* node n .eval(ctx), the first call or the call after a finished one
Call_seq(t, n, ctx) ==
    /\ \/ Idle(t)
       \/ Done(t) /\ call[t].op = "seq" /\ call[t].count < MaxCalls
    /\ stack' = [stack EXCEPT ![t] = <<EvalFrame(n, ctx)>>]
    /\ ret' = [ret EXCEPT ![t] = NoRet]
    /\ call' = [call EXCEPT ![t] =
           [op |-> "seq", ctx |-> <<ctx>>, val |-> Obj(n),
            variables |-> FALSE, errors |-> FALSE,
            count |-> IF Idle(t) THEN 1 ELSE call[t].count + 1]]
    /\ UNCHANGED <<nodes, log>>

NextSeq ==
    \/ \E t \in Threads :
          ~Running(t) /\ \E n \in SeqTargets, ctx \in SeqCtxs : Call_seq(t, n, ctx)
    \/ \E t \in Threads : Expr_eval_attach(t)
    \/ \E t \in Threads : Expr_eval_call(t)
    \/ \E t \in Threads : Expr_eval_exit(t)
    \/ \E t \in Threads : Evalfn_getattr(t)
    \/ \E t \in Threads : Access_start(t)
    \/ \E t \in Threads : Access_call(t)
    \/ \E t \in Threads : Access_return(t)
    \/ \E t \in Threads : Evalfn_resume(t)
    \/ \E t \in Threads : Evalfn_finish(t)
    \/ \E t \in Threads : value_start(t)
    \/ \E t \in Threads : value_return(t)

SpecSeq == Init /\ [][NextSeq]_vars

\* C21: between sequential evals the tree is what it was when built (same
\* attributes, no context), so every eval starts from the state of a fresh
\* tree; the attributes never change; and two finished evals of a node with
\* equal contexts have equal outcomes, whatever was evaluated in between and
\* however the earlier calls ended
C21_Sequential ==
    \A t \in Threads :
        /\ ~Running(t) => nodes = InitNodes
        /\ \A n \in NodeIds : nodes[n] = [InitNodes[n] EXCEPT !.ctx = nodes[n].ctx]
        /\ \A e1, e2 \in Entries(t, "eval") :
              e1.val = e2.val /\ e1.ctx = e2.ctx => e1.out = e2.out

\* the second eval of Sum, with x bound to 1, gave 2 after a first eval of Sum
\* with x unbound that ended in the domain error NotBoundError
C21_Witness ==
    \E t \in Threads :
        /\ Done(t) /\ call[t].op = "seq" /\ call[t].count = 2
        /\ call[t].val = Obj(1) /\ call[t].ctx[1][Var(1)] = Lit(1)
        /\ ret[t] = Return(Lit(2))
        /\ \E e \in Entries(t, "eval") :
              /\ e.val = Obj(1) /\ e.ctx[Var(1)] = NoneVal
              /\ e.out = Return(NotBoundError)

\* value(ctx, raw, variables, errors) for the raw values the nodes of
\* ReadNodes store: a variable or blank node is looked up, anything else is
\* returned as it is
ValueOf(ctx, raw, variables, errors) ==
    IF value_branch(raw) = "variable" THEN value_variable(ctx, raw, variables, errors)
    ELSE Return(raw)

\* C22 as stated: get(a, variables, errors) on a node with a context attached
\* returns value(ctx, raw, variables, errors), both flags as the caller passed
\* them
C22_GetFlags ==
    \A t \in Threads : \A e \in Reads(t, GetOps) :
        e.val.v.test # NoCtx =>
            e.out = ValueOf(e.val.v.at[1],
                            IF Stored(e.val.v.node, e.val.v.a)
                            THEN RawOf(e.val.v.node, e.val.v.a) ELSE Str(e.val.v.a),
                            e.variables, e.errors)

====
